---------------------------- MODULE Spec2Model ----------------------------
(***************************************************************************)
(* Telemetry pipeline of the drone dashboard: the source adapters          *)
(* (services/api.ts, services/dynamodb.ts), the fusion routine             *)
(* transformMavlinkToTelemetry, the polling hook useDynamoDB, and the      *)
(* command dial CircularCommandDial.                                       *)
(*                                                                         *)
(* JavaScript values are tagged records, so that undefined, null, numbers, *)
(* strings, arrays and objects can be told apart the way the code does.    *)
(* Units: altitudes are in tenths of a metre (12.5 m is 125), voltages in  *)
(* tenths of a volt (16.2 V is 162), latitude/longitude in 1e-4 degrees.   *)
(***************************************************************************)
EXTENDS Integers, Sequences, FiniteSets, TLC

VARIABLES
  hook,         \* which useDynamoDB is mounted: "api" or "scan"
  adapter,      \* the getLatestTelemetry behind it: "contract", "api", "apiEnvelope", "dynamodb"
  phase,        \* "idle" (effect not run yet), "mounted", "torn"
  telemetry,    \* useState<Telemetry | null>
  isConnected,  \* useState(false)
  error,        \* useState<string | null>
  isMounted,    \* closure variable of the effect
  intervalId,   \* closure variable of the effect: Undefined or the timer handle
  timerActive,  \* the browser still runs the interval timer
  timerPeriod,  \* the delay the interval was registered with, in ms (0: none)
  ticks,        \* history: how often the interval timer has fired
  inflight,     \* cycles whose await getLatestTelemetry() has not settled
  started,      \* number of pollTelemetry calls made so far
  lastEvent,    \* history: the cycle that settled last
  publishedBy,  \* history: the cycle whose setTelemetry call was the latest (0: none)
  latestData,   \* history: the latest-started cycle that returned data while mounted
  now,          \* Date.now()
  items,        \* fusion harness: the fragment array under test
  fused,        \* fusion harness: result of the latest transform call
  prevFused,    \* fusion harness: result of the call before it
  scanned,      \* scan harness: the records the Scan returned (result.Items)
  returned,     \* scan harness: what getLatestTelemetry settled with for them
  dialConnected,  \* CircularCommandDial: the isConnected prop of the current render
  dialArmed,      \* CircularCommandDial: the isArmed prop of the current render
  loading,        \* CircularCommandDial: useState<string | null>(null)
  activeCommand,  \* CircularCommandDial: useState<string | null>(null)
  pending,        \* onCommand calls that have not settled
  clearTimers,    \* setTimeout(() => setActiveCommand(null), 200) not yet run
  clicks,         \* history: handleCommand calls made so far
  dispatched,     \* history: onCommand calls made so far
  lastClick,      \* history: the latest handleCommand call
  lastSettled,    \* history: how the latest awaited onCommand settled
  ws,                 \* WebSocketService.ws: 0 for null, else the socket's number
  sockets,            \* the readyState of every WebSocket created so far
  reconnectAttempts,  \* WebSocketService.reconnectAttempts
  reconnectTimers,    \* setTimeout(() => this.connect(), delay) not yet run
  wsStatus,           \* the system_status the service emitted last
  clientClosed,       \* history: disconnect() was called and connect() not since
  mockIsConnected,    \* MockWebSocketService.isConnected
  mockIntervalId,     \* MockWebSocketService.intervalId: 0 for null
  connectTimeouts,    \* the 500 ms timeouts of connect() not yet run
  intervals,          \* the telemetry intervals that are running
  streams,            \* startTelemetryStream() calls so far; numbers the intervals
  emitted,            \* the events the mock service has emitted
  connects,           \* connect() calls so far
  mockClosed,         \* history: disconnect() returned and connect() not called since
  alerts,             \* useWebSocket: the alerts state
  alertEvents,        \* alert events delivered to the hook so far
  lastAlert           \* history: the alert event delivered last

vars == <<hook, adapter, phase, telemetry, isConnected, error, isMounted,
          intervalId, timerActive, timerPeriod, ticks, inflight, started,
          lastEvent, publishedBy, latestData, now, items, fused, prevFused,
          scanned, returned,
          dialConnected, dialArmed, loading, activeCommand, pending,
          clearTimers, clicks, dispatched, lastClick, lastSettled, ws, sockets,
          reconnectAttempts, reconnectTimers, wsStatus, clientClosed,
          mockIsConnected, mockIntervalId, connectTimeouts, intervals, streams,
          emitted, connects, mockClosed, alerts, alertEvents, lastAlert>>

ctlVars == <<hook, adapter, phase, telemetry, isConnected, error, isMounted,
             intervalId, timerActive, timerPeriod, ticks, inflight, started,
             lastEvent, publishedBy, latestData>>

fusionVars == <<items, fused, prevFused>>

scanVars == <<scanned, returned>>

dialVars == <<dialConnected, dialArmed, loading, activeCommand, pending,
              clearTimers, clicks, dispatched, lastClick, lastSettled>>

wsVars == <<ws, sockets, reconnectAttempts, reconnectTimers, wsStatus, clientClosed>>

\* the live path: WebSocketService, MockWebSocketService and useWebSocket
mockVars == <<mockIsConnected, mockIntervalId, connectTimeouts, intervals, streams,
              emitted, connects, mockClosed>>

alertVars == <<alerts, alertEvents, lastAlert>>

liveVars == <<wsVars, mockVars, alertVars>>

---------------------------------------------------------------------------
(* Bounds of the model. *)

MaxItems == 3       \* longest fragment array handed to fusion
MaxClockTicks == 1  \* how far Date.now() advances
MaxCycles == 3      \* poll cycles started per mount
MaxScanned == 4     \* most records in one scanned batch
MaxFieldItems == 2  \* longest array of the field-by-field fusion runs
MaxClicks == 3      \* handleCommand calls on the command dial
ClockStart == 108   \* Date.now() at the start; fragments are stamped 100..120
MaxSockets == 3     \* WebSocket objects the service creates in one run
MaxConnects == 3    \* connect() calls on the mock service
MaxEmitted == 3     \* events the mock service emits in one run
MaxAlertEvents == 4 \* alert events delivered to useWebSocket

\* setInterval(pollTelemetry, 2000)
PollIntervalMs == 2000

---------------------------------------------------------------------------
(* JavaScript values. *)

Undefined == [t |-> "undefined"]
Null == [t |-> "null"]
NaN == [t |-> "NaN"]
Num(n) == [t |-> "number", v |-> n]
Str(s) == [t |-> "string", v |-> s]
Bool(b) == [t |-> "boolean", v |-> b]
Arr(s) == [t |-> "array", v |-> s]
Obj(f) == [t |-> "object", v |-> f]

\* ToBoolean: what `if (x)`, `x || y`, `x ? a : b` and Boolean(x) test.
Truthy(x) ==
  CASE x.t = "undefined" -> FALSE
    [] x.t = "null" -> FALSE
    [] x.t = "NaN" -> FALSE
    [] x.t = "number" -> x.v /= 0
    [] x.t = "string" -> x.v /= ""
    [] x.t = "boolean" -> x.v
    [] OTHER -> TRUE

\* a || b
Or(a, b) == IF Truthy(a) THEN a ELSE b

\* a ?? b
Nullish(a, b) == IF a.t \in {"undefined", "null"} THEN b ELSE a

\* x?.k : undefined for undefined/null x and for a property x does not have.
OptProp(x, k) ==
  IF x.t = "object" /\ k \in DOMAIN x.v THEN x.v[k] ELSE Undefined

\* parseFloat on the strings the model uses (tenths of a unit).
ParseFloat(s) ==
  CASE s = "12.5" -> Num(125)
    [] s = "3" -> Num(30)
    [] s = "0" -> Num(0)
    [] OTHER -> NaN

\* ToNumber, as Math.max / Math.min apply it to their arguments.
ToNumber(x) ==
  CASE x.t = "number" -> x
    [] x.t = "null" -> Num(0)
    [] x.t = "boolean" -> Num(IF x.v THEN 1 ELSE 0)
    [] OTHER -> NaN

MathMax2(a, b) ==
  LET x == ToNumber(a)
      y == ToNumber(b)
  IN  IF x.t = "NaN" \/ y.t = "NaN" THEN NaN
      ELSE IF x.v >= y.v THEN x ELSE y

MathMin2(a, b) ==
  LET x == ToNumber(a)
      y == ToNumber(b)
  IN  IF x.t = "NaN" \/ y.t = "NaN" THEN NaN
      ELSE IF x.v <= y.v THEN x ELSE y

\* Math.max(...xs, last)
RECURSIVE MathMaxAll(_, _)
MathMaxAll(xs, last) ==
  IF xs = <<>> THEN ToNumber(last)
  ELSE MathMax2(Head(xs), MathMaxAll(Tail(xs), last))

\* `${x}` : the string a template literal renders for x.
TemplateStr(x) ==
  CASE x.t = "number" -> ToString(x.v)
    [] x.t = "string" -> x.v
    [] x.t = "boolean" -> (IF x.v THEN "true" ELSE "false")
    [] x.t = "NaN" -> "NaN"
    [] x.t = "null" -> "null"
    [] x.t = "undefined" -> "undefined"
    [] OTHER -> "[object Object]"

---------------------------------------------------------------------------
(* Fusion: transformMavlinkToTelemetry (services/dynamodb.ts). *)

\* items.find(item => item.data?.type === type), over the array's elements.
RECURSIVE Find(_, _)
Find(xs, type) ==
  IF xs = <<>> THEN Undefined
  ELSE IF OptProp(OptProp(Head(xs), "data"), "type") = Str(type) THEN Head(xs)
  ELSE Find(Tail(xs), type)

\* item.data?.timestamp || item.timestamp || 0
EffectiveTimestamp(item) ==
  Or(Or(OptProp(OptProp(item, "data"), "timestamp"), OptProp(item, "timestamp")),
     Num(0))

\* items.map(item => item.data?.timestamp || item.timestamp || 0)
Timestamps(xs) == [i \in 1..Len(xs) |-> EffectiveTimestamp(xs[i])]

\* Math.max(...timestamps, Date.now())
LatestTimestamp(xs, clock) == MathMaxAll(Timestamps(xs), Num(clock))

\* ((batteryVoltage - 12) / 4.2) * 100, the voltage in tenths of a volt.  The
\* model draws voltages for which the quotient is a whole number.
VoltagePercent(voltage) ==
  IF voltage.t = "number" THEN Num(((voltage.v - 120) * 100) \div 42) ELSE NaN

BatteryPercent(batteryData) ==
  LET batteryRemaining == OptProp(batteryData, "remaining")
      batteryVoltage == OptProp(batteryData, "voltage")
  IN  IF batteryRemaining /= Undefined THEN batteryRemaining
      ELSE IF Truthy(batteryVoltage)
           THEN MathMax2(Num(0), MathMin2(Num(100), VoltagePercent(batteryVoltage)))
           ELSE Num(100)

AltValue(a) == IF a.t = "string" THEN ParseFloat(a.v) ELSE a

\* Mutant: the final default of the altitude chain is missing.
AltitudeNoDefault(altitudeData) ==
  LET relativeAlt == OptProp(altitudeData, "relative")
      amslAlt == OptProp(altitudeData, "amsl")
  IN  IF relativeAlt /= Undefined THEN AltValue(relativeAlt)
      ELSE IF amslAlt /= Undefined THEN AltValue(amslAlt)
      ELSE Undefined

Altitude(altitudeData) ==
  LET relativeAlt == OptProp(altitudeData, "relative")
      amslAlt == OptProp(altitudeData, "amsl")
  IN  IF relativeAlt /= Undefined THEN AltValue(relativeAlt)
      ELSE IF amslAlt /= Undefined THEN AltValue(amslAlt)
      ELSE Num(0)

modeMap ==
  <<"STABILIZE", "ACRO", "ALT_HOLD", "AUTO", "GUIDED", "LOITER", "RTL",
    "CIRCLE", "LAND", "OF_LOITER", "TAKEOFF">>

\* Mutant: the table is read one entry off.
FlightModeShifted(mode) ==
  IF mode.t = "number" /\ mode.v \in 1..11 THEN Str(modeMap[mode.v])
  ELSE Str("MODE_" \o TemplateStr(mode))

\* modeMap[mode] || `MODE_${mode}`
FlightMode(mode) ==
  IF mode.t = "number" /\ mode.v \in 0..10 THEN Str(modeMap[mode.v + 1])
  ELSE Str("MODE_" \o TemplateStr(mode))

defaultLat == 377749
defaultLon == -1224194

\* `drone-${items[0]?.sysid || 1}`
DroneId(xs) ==
  LET first == IF xs = <<>> THEN Undefined ELSE xs[1]
  IN  Str("drone-" \o TemplateStr(Or(OptProp(first, "sysid"), Num(1))))

\* transformMavlinkToTelemetry(items), called when Date.now() is clock.
transformMavlinkToTelemetry(arr, clock) ==
  LET xs == arr.v
      batteryData == OptProp(Find(xs, "battery"), "data")
      altitudeData == OptProp(Find(xs, "altitude"), "data")
      stateData == OptProp(Find(xs, "state"), "data")
      armed == Nullish(OptProp(stateData, "armed"), Bool(FALSE))
      mode == Nullish(OptProp(stateData, "mode"), Num(0))
  IN  Obj([droneId |-> DroneId(xs),
           timestamp |-> LatestTimestamp(xs, clock),
           position |-> Obj([lat |-> Num(defaultLat), lon |-> Num(defaultLon),
                             alt |-> Altitude(altitudeData)]),
           velocity |-> Obj([vx |-> Num(0), vy |-> Num(0), vz |-> Num(0)]),
           attitude |-> Obj([roll |-> Num(0), pitch |-> Num(0), yaw |-> Num(0)]),
           battery |-> MathMax2(Num(0), MathMin2(Num(100), BatteryPercent(batteryData))),
           flightMode |-> FlightMode(mode),
           armed |-> Bool(Truthy(armed))])

(* Fragments the fusion harness draws from: DynamoDBTelemetryItem values. *)
Item(ts, sysid, data) == Obj([timestamp |-> Num(ts), sysid |-> Num(sysid), data |-> data])

BatteryOld == Item(100, 1, Obj([type |-> Str("battery"), timestamp |-> Num(100), remaining |-> Num(60)]))
BatteryNew == Item(110, 1, Obj([type |-> Str("battery"), timestamp |-> Num(110), remaining |-> Num(40)]))
BatteryVolt == Item(105, 1, Obj([type |-> Str("battery"), timestamp |-> Num(105), voltage |-> Num(141)]))
AltitudeRel == Item(105, 1, Obj([type |-> Str("altitude"), timestamp |-> Num(105), relative |-> Str("12.5")]))
AltitudeAmsl == Item(100, 1, Obj([type |-> Str("altitude"), timestamp |-> Num(100), amsl |-> Num(30)]))
StateArmed == Item(110, 1, Obj([type |-> Str("state"), timestamp |-> Num(110), armed |-> Bool(TRUE), mode |-> Num(5)]))
StateDisarmed == Item(104, 1, Obj([type |-> Str("state"), timestamp |-> Num(104), armed |-> Bool(FALSE), mode |-> Num(99)]))
\* a record of a kind fusion does not know, stamped at the record level only
Heartbeat == Obj([timestamp |-> Num(120), sysid |-> Num(7), data |-> Obj([type |-> Str("heartbeat")])])
\* a record with no payload and no source-system id
Bare == Obj([timestamp |-> Num(102)])

Fragments ==
  {BatteryOld, BatteryNew, BatteryVolt, AltitudeRel, AltitudeAmsl, StateArmed,
   StateDisarmed, Heartbeat, Bare}

---------------------------------------------------------------------------
(* The clock, and a caller of transformMavlinkToTelemetry. *)

\* Date.now() moves on between two calls.
ClockTick ==
  /\ now < ClockStart + MaxClockTicks
  /\ now' = now + 1
  /\ UNCHANGED <<ctlVars, fusionVars, scanVars, dialVars, liveVars>>

\* The caller builds the array it is about to pass to fusion.
PushFragment(f) ==
  /\ Len(items.v) < MaxItems
  /\ items' = Arr(Append(items.v, f))
  /\ fused' = Undefined
  /\ prevFused' = Undefined
  /\ UNCHANGED <<ctlVars, now, scanVars, dialVars, liveVars>>

\* const transformed = transformMavlinkToTelemetry(items)
CallTransform ==
  /\ prevFused' = fused
  /\ fused' = transformMavlinkToTelemetry(items, now)
  /\ UNCHANGED <<ctlVars, now, items, scanVars, dialVars, liveVars>>

CtlIdle ==
  /\ phase = "idle"
  /\ telemetry = Null
  /\ isConnected = FALSE
  /\ error = Null
  /\ isMounted = FALSE
  /\ intervalId = Undefined
  /\ timerActive = FALSE
  /\ timerPeriod = 0
  /\ ticks = 0
  /\ inflight = {}
  /\ started = 0
  /\ lastEvent = [kind |-> "none"]
  /\ publishedBy = 0
  /\ latestData = 0

\* CircularCommandDial before its first click.
DialIdle ==
  /\ loading = Null
  /\ activeCommand = Null
  /\ pending = 0
  /\ clearTimers = 0
  /\ clicks = 0
  /\ dispatched = 0
  /\ lastClick = [kind |-> "none"]
  /\ lastSettled = "none"

\* WebSocketService as constructed.
WsIdle ==
  /\ ws = 0
  /\ sockets = <<>>
  /\ reconnectAttempts = 0
  /\ reconnectTimers = 0
  /\ wsStatus = "none"
  /\ clientClosed = FALSE

\* MockWebSocketService as constructed.
MockIdle ==
  /\ mockIsConnected = FALSE
  /\ mockIntervalId = 0
  /\ connectTimeouts = 0
  /\ intervals = {}
  /\ streams = 0
  /\ emitted = <<>>
  /\ connects = 0
  /\ mockClosed = FALSE

\* useWebSocket before any alert event.
AlertsIdle ==
  /\ alerts = <<>>
  /\ alertEvents = 0
  /\ lastAlert = [kind |-> "none"]

\* The live path before anything has used it.
LiveIdle == WsIdle /\ MockIdle /\ AlertsIdle

\* A dashboard that shows no dial yet.
DialAbsent ==
  /\ dialConnected = FALSE
  /\ dialArmed = Undefined
  /\ DialIdle
  /\ LiveIdle

FusionIdle ==
  /\ items = Arr(<<>>)
  /\ fused = Undefined
  /\ prevFused = Undefined
  /\ scanned = Arr(<<>>)
  /\ returned = Undefined

InitFusion ==
  /\ hook = "scan"
  /\ adapter = "dynamodb"
  /\ CtlIdle
  /\ FusionIdle
  /\ DialAbsent
  /\ now = ClockStart

NextFusion ==
  \/ ClockTick
  \/ \E f \in Fragments : PushFragment(f)
  \/ CallTransform

SpecFusion == InitFusion /\ [][NextFusion]_vars

(* Fusion field by field: fragments that carry, or lack, each of the fields *)
(* transformMavlinkToTelemetry reads.                                       *)

FieldItem(data) == Item(100, 1, data)

\* battery voltages, in tenths of a volt: 0 V, 9.9 V, 12.0 V, 14.1 V, 16.2 V, 18.3 V
FieldVoltages == {0, 99, 120, 141, 162, 183}

FieldBatteries ==
  {FieldItem(Obj([type |-> Str("battery"), timestamp |-> Num(100),
                  remaining |-> Num(r), voltage |-> Num(162)])) : r \in {0, 42}}
  \cup {FieldItem(Obj([type |-> Str("battery"), timestamp |-> Num(100),
                       voltage |-> Num(v)])) : v \in FieldVoltages}
  \cup {FieldItem(Obj([type |-> Str("battery"), timestamp |-> Num(100)]))}

FieldAltitudes ==
  {AltitudeRel, AltitudeAmsl,
   FieldItem(Obj([type |-> Str("altitude"), timestamp |-> Num(100),
                  relative |-> Num(80), amsl |-> Num(30)])),
   FieldItem(Obj([type |-> Str("altitude"), timestamp |-> Num(100)])),
   FieldItem(Obj([type |-> Str("altitude"), timestamp |-> Num(100), relative |-> Null])),
   FieldItem(Obj([type |-> Str("altitude"), timestamp |-> Num(100),
                  relative |-> Str("n/a")]))}

\* mode codes: the eleven of modeMap, their two neighbours, and 99
FieldModes == (-1..11) \cup {99}

FieldStates ==
  {FieldItem(Obj([type |-> Str("state"), timestamp |-> Num(100),
                  armed |-> Bool(TRUE), mode |-> Num(n)])) : n \in FieldModes}
  \cup {FieldItem(Obj([type |-> Str("state"), timestamp |-> Num(100)]))}

\* a record with no timestamp at either level
Unstamped == Obj([sysid |-> Num(1), data |-> Obj([type |-> Str("battery")])])

FieldFragments ==
  FieldBatteries \cup FieldAltitudes \cup FieldStates \cup {Heartbeat, Bare, Unstamped}

PushField(f) ==
  /\ Len(items.v) < MaxFieldItems
  /\ items' = Arr(Append(items.v, f))
  /\ fused' = Undefined
  /\ prevFused' = Undefined
  /\ UNCHANGED <<ctlVars, now, scanVars, dialVars, liveVars>>

NextFields ==
  \/ \E f \in FieldFragments : PushField(f)
  \/ CallTransform

SpecFields == InitFusion /\ [][NextFields]_vars

---------------------------------------------------------------------------
(* The polling hook useDynamoDB.  hook = "api" is hooks/useDynamoDB.ts, which *)
(* publishes what the pre-aggregated adapter returns; hook = "scan" is the    *)
(* variant that fuses the batch-scan adapter's fragments.                     *)

\* What a promise settles with: a value, or a thrown error.
Value(v) == [kind |-> "value", val |-> v]
Throw(e) == [kind |-> "throw", err |-> e]

\* new Error(message)
Err(msg) == [t |-> "error", message |-> msg]

\* Mutant: the message of the thrown Error is dropped.
ErrorMessageUnknown(err) == Str("Unknown error")

\* Mutant: the catch branch clears the error instead of recording it.
ErrorMessageCleared(err) == Null

\* err instanceof Error ? err.message : 'Unknown error'
ErrorMessage(err) == IF err.t = "error" THEN Str(err.message) ELSE Str("Unknown error")

\* Mutant: the guard tests `data !== undefined` / `items` only, so that null
\* and the empty array count as data.
HasDataLoose(h, data) ==
  IF h = "api" THEN data /= Undefined ELSE Truthy(data) /\ data.t = "array"

\* Mutant: the guard is dropped and every returned value is published.
HasDataAlways(h, data) == h = "api" \/ data.t = "array"

\* The test that guards setTelemetry: `if (data)` in the api hook,
\* `if (items && items.length > 0)` in the scan hook.
HasData(h, data) ==
  IF h = "api" THEN Truthy(data)
  ELSE Truthy(data) /\ data.t = "array" /\ Len(data.v) > 0

\* Mutant: the new snapshot is merged into the previous one, whose armed
\* field is kept.
PublishedMerged(h, data, clock) ==
  LET new == IF h = "api" THEN data ELSE transformMavlinkToTelemetry(data, clock)
  IN  IF telemetry = Null THEN new ELSE [new EXCEPT !.v.armed = telemetry.v.armed]

\* The snapshot handed to setTelemetry.
Published(h, data, clock) ==
  IF h = "api" THEN data ELSE transformMavlinkToTelemetry(data, clock)

\* useEffect(() => { ... }, []) runs: isMounted = true, pollTelemetry() is
\* called (it runs up to its await), and the interval is registered.
Mount ==
  /\ phase = "idle"
  /\ phase' = "mounted"
  /\ isMounted' = TRUE
  /\ started' = started + 1
  /\ inflight' = inflight \cup {started + 1}
  /\ intervalId' = Num(1)
  /\ timerActive' = TRUE
  /\ timerPeriod' = PollIntervalMs
  /\ UNCHANGED <<hook, adapter, telemetry, isConnected, error, ticks, lastEvent,
                 publishedBy, latestData, now,
                 fusionVars, scanVars, dialVars, liveVars>>

\* Mutant: the interval's callback starts a cycle only while the hook shows
\* no error.
IntervalTickUnlessFailed ==
  /\ timerActive
  /\ started < MaxCycles
  /\ ticks' = ticks + 1
  /\ started' = (IF error = Null THEN started + 1 ELSE started)
  /\ inflight' = (IF error = Null THEN inflight \cup {started + 1} ELSE inflight)
  /\ UNCHANGED <<hook, adapter, phase, telemetry, isConnected, error, isMounted,
                 intervalId, timerActive, timerPeriod, lastEvent, publishedBy, latestData,
                 now, fusionVars, scanVars, dialVars, liveVars>>

\* The interval fires and calls pollTelemetry, which runs up to its await.
IntervalTick ==
  /\ timerActive
  /\ started < MaxCycles
  /\ ticks' = ticks + 1
  /\ started' = started + 1
  /\ inflight' = inflight \cup {started + 1}
  /\ UNCHANGED <<hook, adapter, phase, telemetry, isConnected, error, isMounted,
                 intervalId, timerActive, timerPeriod, lastEvent, publishedBy, latestData,
                 now, fusionVars, scanVars, dialVars, liveVars>>

\* The effect's cleanup: isMounted = false; if (intervalId) clearInterval(intervalId).
Teardown ==
  /\ phase = "mounted"
  /\ phase' = "torn"
  /\ isMounted' = FALSE
  /\ timerActive' = (IF Truthy(intervalId) THEN FALSE ELSE timerActive)
  /\ UNCHANGED <<hook, adapter, telemetry, isConnected, error, intervalId, timerPeriod,
                 ticks, inflight, started, lastEvent, publishedBy, latestData, now,
                 fusionVars, scanVars, dialVars, liveVars>>

\* Mutant: the unmount guard is missing.
SuppressedNever == FALSE

\* if (!isMounted) return;
Suppressed == ~isMounted

\* History only: how the cycle that settled is classed in lastEvent, by what
\* the adapter call did: it threw, it returned nothing (null, undefined or an
\* empty array), or it returned data.
Outcome(r) ==
  IF r.kind = "throw" THEN "throw"
  ELSE IF r.val \in {Null, Undefined, Arr(<<>>)} THEN "empty" ELSE "data"

\* pollTelemetry resumes after `await getLatestTelemetry()` of cycle c, which
\* settled with r; net is what the network did (history only).
Settle(c, r, net) ==
  /\ c \in inflight
  /\ inflight' = inflight \ {c}
  /\ lastEvent' = [kind |-> Outcome(r), prevKind |-> lastEvent.kind, cycle |-> c,
                   mounted |-> isMounted, before |-> telemetry, result |-> r,
                   net |-> net, at |-> now, startedThen |-> started]
  /\ publishedBy' = (IF ~Suppressed /\ r.kind = "value" /\ HasData(hook, r.val)
                     THEN c ELSE publishedBy)
  /\ latestData' = (IF isMounted /\ Outcome(r) = "data" /\ c > latestData
                    THEN c ELSE latestData)
  /\ IF Suppressed
     THEN UNCHANGED <<telemetry, isConnected, error>>
     ELSE IF r.kind = "value"
          THEN /\ telemetry' = (IF HasData(hook, r.val)
                                THEN Published(hook, r.val, now) ELSE telemetry)
               /\ isConnected' = TRUE
               /\ error' = Null
          ELSE /\ error' = ErrorMessage(r.err)
               /\ isConnected' = FALSE
               /\ UNCHANGED telemetry
  /\ UNCHANGED <<hook, adapter, phase, isMounted, intervalId, timerActive, timerPeriod,
                 ticks, started, now, fusionVars, scanVars, dialVars, liveVars>>

\* A Telemetry object as the pre-aggregated endpoint serves it.
Snapshot(battery, armed, ts) ==
  Obj([droneId |-> Str("drone-1"), timestamp |-> Num(ts),
       position |-> Obj([lat |-> Num(defaultLat), lon |-> Num(defaultLon), alt |-> Num(125)]),
       velocity |-> Obj([vx |-> Num(0), vy |-> Num(0), vz |-> Num(0)]),
       attitude |-> Obj([roll |-> Num(0), pitch |-> Num(0), yaw |-> Num(0)]),
       battery |-> Num(battery), flightMode |-> Str("LOITER"), armed |-> Bool(armed)])

TelA == Snapshot(60, TRUE, 100)
TelB == Snapshot(40, FALSE, 110)

\* What `await getLatestTelemetry()` can settle with under the adapter's
\* declared contract (Promise<Telemetry | null>, Promise<DynamoDBTelemetryItem[]>):
\* data, an empty result, or a rejection.
ContractResults(h) ==
  {Throw(Err("Network error")), Throw(Str("timeout")), Value(Null), Value(Undefined)}
  \cup (IF h = "api" THEN {Value(TelA), Value(TelB)}
        ELSE {Value(Arr(<<>>)), Value(Arr(<<BatteryOld, AltitudeRel, StateArmed>>)),
              Value(Arr(<<BatteryNew>>))})

SettleContract(c) ==
  \E r \in ContractResults(hook) : Settle(c, r, [kind |-> "n/a"])

Init ==
  /\ hook \in {"api", "scan"}
  /\ adapter = "contract"
  /\ CtlIdle
  /\ FusionIdle
  /\ DialAbsent
  /\ now = ClockStart

Next ==
  \/ Mount
  \/ IntervalTick
  \/ \E c \in 1..MaxCycles : SettleContract(c)
  \/ Teardown
  \/ ClockTick

Spec == Init /\ [][Next]_vars

---------------------------------------------------------------------------
(* The source adapters: getLatestTelemetry of services/api.ts (two versions, *)
(* without and with the Lambda-proxy envelope) and of services/dynamodb.ts.  *)

\* x.k : a TypeError when x is undefined or null.
GetProp(x, k) ==
  IF x.t \in {"undefined", "null"}
  THEN Throw(Err("Cannot read properties of " \o x.t))
  ELSE Value(OptProp(x, k))

\* JSON.parse / response.json() on the texts the model's servers send.  <A>
\* and <B> abbreviate the serialized snapshots TelA and TelB.
JSONParse(text) ==
  CASE text = "null" -> Value(Null)
    [] text = "{}" -> Value(Obj(<<>>))
    [] text = "{\"telemetry\":<A>}" -> Value(Obj([telemetry |-> TelA]))
    [] text = "{\"telemetry\":<B>}" -> Value(Obj([telemetry |-> TelB]))
    [] text = "{\"telemetry\":null}" -> Value(Obj([telemetry |-> Null]))
    [] text = "{\"body\":\"{\\\"telemetry\\\":<A>}\"}" ->
         Value(Obj([body |-> Str("{\"telemetry\":<A>}")]))
    [] text = "{\"body\":\"<html>\"}" -> Value(Obj([body |-> Str("<html>")]))
    [] text = "{\"body\":\"null\"}" -> Value(Obj([body |-> Str("null")]))
    [] text = "{\"body\":{\"telemetry\":<B>}}" ->
         Value(Obj([body |-> Obj([telemetry |-> TelB])]))
    [] text = "{\"body\":\"\",\"telemetry\":<A>}" ->
         Value(Obj([body |-> Str(""), telemetry |-> TelA]))
    [] OTHER -> Throw(Err("Unexpected token"))

\* What fetch(API_URL) settles with: a rejection, or a response.
Response(status, body) ==
  [kind |-> "response", ok |-> (status \in 200..299), status |-> status, body |-> body]

FetchOutcomes ==
  {[kind |-> "reject", err |-> Err("Failed to fetch")],
   Response(500, "{\"message\":\"Internal server error\"}"),
   Response(404, "<html>"),
   Response(200, "<html>")}
  \cup {Response(200, b) : b \in
          {"null", "{}", "{\"telemetry\":<A>}", "{\"telemetry\":<B>}",
           "{\"telemetry\":null}", "{\"body\":\"{\\\"telemetry\\\":<A>}\"}",
           "{\"body\":\"<html>\"}", "{\"body\":\"null\"}",
           "{\"body\":{\"telemetry\":<B>}}", "{\"body\":\"\",\"telemetry\":<A>}"}}

\* The try block of api.ts's getLatestTelemetry.
ApiTry(n) ==
  IF n.kind = "reject" THEN Throw(n.err)
  ELSE IF ~n.ok THEN Throw(Err("API request failed: " \o ToString(n.status)))
  ELSE LET data == JSONParse(n.body)
       IN  IF data.kind = "throw" THEN data
           ELSE LET tel == GetProp(data.val, "telemetry")
                IN  IF tel.kind = "throw" THEN tel ELSE Value(Or(tel.val, Null))

\* getLatestTelemetry of services/api.ts: try { ... } catch { return null }.
apiGetLatestTelemetry(n) ==
  LET r == ApiTry(n) IN IF r.kind = "throw" THEN Value(Null) ELSE r

\* The try block of the envelope-aware getLatestTelemetry.
EnvelopeTry(n) ==
  IF n.kind = "reject" THEN Throw(n.err)
  ELSE IF ~n.ok THEN Throw(Err("API request failed: " \o ToString(n.status)))
  ELSE LET data == JSONParse(n.body)
       IN  IF data.kind = "throw" THEN data
           ELSE LET body == GetProp(data.val, "body")
                IN  IF body.kind = "throw" THEN body
                    ELSE IF Truthy(body.val)
                    THEN LET bodyData == IF body.val.t = "string"
                                         THEN JSONParse(body.val.v)
                                         ELSE Value(body.val)
                         IN  IF bodyData.kind = "throw" THEN bodyData
                             ELSE LET tel == GetProp(bodyData.val, "telemetry")
                                  IN  IF tel.kind = "throw" THEN tel
                                      ELSE Value(Or(tel.val, Null))
                    ELSE Value(Or(OptProp(data.val, "telemetry"), Null))

\* Mutant: the envelope-aware adapter without its catch.
EnvelopeRethrows(n) == EnvelopeTry(n)

\* The envelope-aware getLatestTelemetry: try { ... } catch { return null }.
envelopeGetLatestTelemetry(n) ==
  LET r == EnvelopeTry(n) IN IF r.kind = "throw" THEN Value(Null) ELSE r

\* (a.data?.timestamp || a.timestamp || 0), the sort key of the scan adapter.
SortKey(a) ==
  Or(Or(OptProp(OptProp(a, "data"), "timestamp"), OptProp(a, "timestamp")), Num(0))

\* x put into s, which is sorted by descending key, behind the elements whose
\* key is not smaller (Array.prototype.sort is stable).
RECURSIVE InsertDesc(_, _)
InsertDesc(x, s) ==
  IF s = <<>> THEN <<x>>
  ELSE IF SortKey(Head(s)).v >= SortKey(x).v THEN <<Head(s)>> \o InsertDesc(x, Tail(s))
  ELSE <<x>> \o s

\* Mutant: the batch is not sorted.
SortOmitted(xs) == xs

\* result.Items.sort((a, b) => bTime - aTime)
RECURSIVE SortDesc(_)
SortDesc(xs) ==
  IF xs = <<>> THEN <<>>
  ELSE InsertDesc(xs[Len(xs)], SortDesc(SubSeq(xs, 1, Len(xs) - 1)))

\* latestByType.has(type), the map kept as a sequence in insertion order.
MapHas(m, type) == \E i \in 1..Len(m) : m[i].key = type

\* Mutant: the loop without its early break.
RECURSIVE LatestByTypeNoBreak(_, _)
LatestByTypeNoBreak(xs, m) ==
  IF xs = <<>> THEN m
  ELSE LET item == Head(xs)
           itemData == Or(OptProp(item, "data"), item)
           type == Or(OptProp(itemData, "type"), Str("unknown"))
           m2 == IF MapHas(m, type) THEN m ELSE Append(m, [key |-> type, item |-> item])
       IN  LatestByTypeNoBreak(Tail(xs), m2)

\* The for loop over the sorted items, with its early break.
RECURSIVE LatestByType(_, _)
LatestByType(xs, m) ==
  IF xs = <<>> THEN m
  ELSE LET item == Head(xs)
           itemData == Or(OptProp(item, "data"), item)
           type == Or(OptProp(itemData, "type"), Str("unknown"))
           m2 == IF MapHas(m, type) THEN m ELSE Append(m, [key |-> type, item |-> item])
       IN  IF MapHas(m2, Str("battery")) /\ MapHas(m2, Str("altitude"))
              /\ MapHas(m2, Str("state"))
           THEN m2
           ELSE LatestByType(Tail(xs), m2)

\* Array.from(latestByType.values())
MapValues(m) == [i \in 1..Len(m) |-> m[i].item]

\* What dynamoClient.send(new ScanCommand(...)) settles with: a rejection
\* (no connection, or the service answering with an error status), or a
\* result whose Items may be missing, empty, or hold the scanned records.
ScanOutcomes ==
  {[kind |-> "reject", err |-> Err("NetworkingError")],
   [kind |-> "reject", err |-> Err("ResourceNotFoundException")],
   [kind |-> "result", Items |-> Undefined],
   [kind |-> "result", Items |-> Arr(<<>>)],
   [kind |-> "result", Items |-> Arr(<<Null, BatteryOld>>)],
   [kind |-> "result", Items |-> Arr(<<BatteryOld, BatteryNew>>)],
   [kind |-> "result", Items |-> Arr(<<Heartbeat, AltitudeRel, StateArmed, BatteryNew>>)],
   [kind |-> "result", Items |-> Arr(<<Bare, StateDisarmed>>)]}

\* The try block of dynamodb.ts's getLatestTelemetry.  Reading a property of
\* a null record, in the comparator or in the loop, is a TypeError.
DynamoTry(n) ==
  IF n.kind = "reject" THEN Throw(n.err)
  ELSE IF Truthy(n.Items) /\ Len(n.Items.v) > 0
  THEN IF \E i \in 1..Len(n.Items.v) : n.Items.v[i].t \in {"undefined", "null"}
       THEN Throw(Err("Cannot read properties of null"))
       ELSE Value(Arr(MapValues(LatestByType(SortDesc(n.Items.v), <<>>))))
  ELSE Value(Arr(<<>>))

\* getLatestTelemetry of services/dynamodb.ts: try { ... } catch { return [] }.
dynamodbGetLatestTelemetry(n) ==
  LET r == DynamoTry(n) IN IF r.kind = "throw" THEN Value(Arr(<<>>)) ELSE r

\* The hook with the adapter it imports, over what the network can do.
NetworkOutcomes(a) == IF a = "dynamodb" THEN ScanOutcomes ELSE FetchOutcomes

GetLatestTelemetry(a, n) ==
  CASE a = "api" -> apiGetLatestTelemetry(n)
    [] a = "apiEnvelope" -> envelopeGetLatestTelemetry(n)
    [] a = "dynamodb" -> dynamodbGetLatestTelemetry(n)

SettleShipped(c) ==
  \E n \in NetworkOutcomes(adapter) : Settle(c, GetLatestTelemetry(adapter, n), n)

InitShipped ==
  /\ adapter \in {"api", "apiEnvelope", "dynamodb"}
  /\ hook = (IF adapter = "dynamodb" THEN "scan" ELSE "api")
  /\ CtlIdle
  /\ FusionIdle
  /\ DialAbsent
  /\ now = ClockStart

NextShipped ==
  \/ Mount
  \/ IntervalTick
  \/ \E c \in 1..MaxCycles : SettleShipped(c)
  \/ Teardown
  \/ ClockTick

SpecShipped == InitShipped /\ [][NextShipped]_vars

---------------------------------------------------------------------------
(* The scan adapter over the batches a Scan can return. *)

\* a battery record whose payload is stamped 0 and whose record is stamped 115
BatteryZeroStamp ==
  Item(115, 1, Obj([type |-> Str("battery"), timestamp |-> Num(0), remaining |-> Num(80)]))
\* an altitude record stamped like AltitudeRel
AltitudeTie ==
  Item(105, 1, Obj([type |-> Str("altitude"), timestamp |-> Num(105), amsl |-> Num(30)]))

ScanRecords == Fragments \cup {BatteryZeroStamp, AltitudeTie}

\* The table holds one more record when the Scan reads it.
ScanRecord(r) ==
  /\ Len(scanned.v) < MaxScanned
  /\ scanned' = Arr(Append(scanned.v, r))
  /\ returned' = Undefined
  /\ UNCHANGED <<ctlVars, now, fusionVars, dialVars, liveVars>>

\* const items = await getLatestTelemetry(), the Scan answering with the batch.
CallScan ==
  /\ returned' = dynamodbGetLatestTelemetry([kind |-> "result", Items |-> scanned])
  /\ UNCHANGED <<ctlVars, now, fusionVars, scanned, dialVars, liveVars>>

InitScan ==
  /\ hook = "scan"
  /\ adapter = "dynamodb"
  /\ CtlIdle
  /\ FusionIdle
  /\ DialAbsent
  /\ now = ClockStart

NextScan ==
  \/ \E r \in ScanRecords : ScanRecord(r)
  \/ CallScan

SpecScan == InitScan /\ [][NextScan]_vars

---------------------------------------------------------------------------
(* The command dial: CircularCommandDial (components/DashboardHeader.tsx). *)

DirectionCommands == {"TAKEOFF", "LAND", "RTL", "LOITER"}

\* Mutant: the guard tests loading only.
BlockedWhileLoadingOnly == Truthy(loading)

\* Mutant: the guard tests isConnected only.
BlockedWhileDisconnectedOnly == ~dialConnected

\* if (!isConnected || loading) return;
Blocked == ~dialConnected \/ Truthy(loading)

\* handleCommand(command), up to its await: the guard, setLoading,
\* setActiveCommand and the call of onCommand.  The handler is modelled as
\* callable whether or not the button is rendered disabled.
HandleCommand(command) ==
  /\ clicks < MaxClicks
  /\ clicks' = clicks + 1
  /\ lastClick' = [kind |-> "click", command |-> command, connected |-> dialConnected,
                   loading |-> loading]
  /\ IF Blocked
     THEN UNCHANGED <<loading, activeCommand, pending, dispatched>>
     ELSE /\ loading' = Str(command)
          /\ activeCommand' = Str(command)
          /\ pending' = pending + 1
          /\ dispatched' = dispatched + 1
  /\ UNCHANGED <<ctlVars, now, fusionVars, scanVars, liveVars, dialConnected, dialArmed,
                 clearTimers, lastSettled>>

\* onClick={() => handleCommand(command)} of a DirectionalButton
ClickDirection(command) == HandleCommand(command)

\* telemetry?.hasStateData === true ? telemetry.armed : (telemetry?.armed ?? true)
displayArmed(tel) ==
  IF OptProp(tel, "hasStateData") = Bool(TRUE) THEN OptProp(tel, "armed")
  ELSE Nullish(OptProp(tel, "armed"), Bool(TRUE))

\* isArmed ? 'DISARM' : 'ARM'
CenterCommand(isArmed) == IF Truthy(isArmed) THEN "DISARM" ELSE "ARM"

\* onClick={() => handleCommand(isArmed ? 'DISARM' : 'ARM')}
ClickCenter == HandleCommand(CenterCommand(dialArmed))

\* await onCommand(...) settles, resolved or rejected: the catch logs, the
\* finally block runs setLoading(null) and arms the 200 ms timer.
CommandSettles(rejected) ==
  /\ pending > 0
  /\ pending' = pending - 1
  /\ lastSettled' = IF rejected THEN "rejected" ELSE "resolved"
  /\ loading' = Null
  /\ clearTimers' = clearTimers + 1
  /\ UNCHANGED <<ctlVars, now, fusionVars, scanVars, liveVars, dialConnected, dialArmed,
                 activeCommand, clicks, dispatched, lastClick>>

\* The 200 ms timer fires: setActiveCommand(null).
ClearActiveCommand ==
  /\ clearTimers > 0
  /\ clearTimers' = clearTimers - 1
  /\ activeCommand' = Null
  /\ UNCHANGED <<ctlVars, now, fusionVars, scanVars, liveVars, dialConnected, dialArmed, loading,
                 pending, clicks, dispatched, lastClick, lastSettled>>

\* The parent renders the dial with other isConnected / isArmed props.
Rerender(connected, armed) ==
  /\ <<connected, armed>> /= <<dialConnected, dialArmed>>
  /\ dialConnected' = connected
  /\ dialArmed' = armed
  /\ UNCHANGED <<ctlVars, now, fusionVars, scanVars, liveVars, loading, activeCommand, pending,
                 clearTimers, clicks, dispatched, lastClick, lastSettled>>

InitDial ==
  /\ hook = "api"
  /\ adapter = "contract"
  /\ CtlIdle
  /\ FusionIdle
  /\ now = ClockStart
  /\ dialConnected \in BOOLEAN
  /\ dialArmed \in {Undefined, Bool(FALSE), Bool(TRUE)}
  /\ DialIdle
  /\ LiveIdle

NextDial ==
  \/ \E command \in DirectionCommands : ClickDirection(command)
  \/ ClickCenter
  \/ \E rejected \in BOOLEAN : CommandSettles(rejected)
  \/ ClearActiveCommand
  \/ \E connected \in BOOLEAN, armed \in {Undefined, Bool(FALSE), Bool(TRUE)} :
       Rerender(connected, armed)

SpecDial == InitDial /\ [][NextDial]_vars

---------------------------------------------------------------------------
(* Properties of the polling hook, checked under Spec. *)

Settled == lastEvent.kind /= "none"

\* C1 (error isolation): a cycle whose adapter call raises, settling while the
\* hook is mounted, leaves telemetry as it was, sets isConnected to false and
\* records the error's message ('Unknown error' for a thrown non-Error); a
\* cycle that returns data, after a raising cycle as at any other time, sets
\* isConnected to true, clears the error and publishes the new snapshot.
C1_ErrorIsolation ==
  (Settled /\ lastEvent.mounted) =>
    /\ lastEvent.kind = "throw" =>
         /\ telemetry = lastEvent.before
         /\ isConnected = FALSE
         /\ error = (IF lastEvent.result.err.t = "error"
                     THEN Str(lastEvent.result.err.message)
                     ELSE Str("Unknown error"))
    /\ lastEvent.kind = "data" =>
         /\ isConnected = TRUE
         /\ error = Null
         /\ telemetry = (IF hook = "api" THEN lastEvent.result.val
                         ELSE transformMavlinkToTelemetry(lastEvent.result.val,
                                                          lastEvent.at))

\* C1 witness: a snapshot was published, survived a raising cycle, and the
\* next cycle replaced it with different data.
C1_Witness ==
  /\ Settled
  /\ lastEvent.mounted
  /\ lastEvent.kind = "data"
  /\ lastEvent.prevKind = "throw"
  /\ lastEvent.before /= Null
  /\ telemetry /= lastEvent.before

\* C3 (idempotence under an empty poll): a cycle whose adapter call returns
\* null, undefined or an empty array, settling while mounted, leaves telemetry
\* as it was, sets isConnected to true and clears the error.
C3_EmptyPoll ==
  (Settled /\ lastEvent.mounted /\ lastEvent.kind = "empty") =>
    /\ telemetry = lastEvent.before
    /\ isConnected = TRUE
    /\ error = Null

\* C3 witness: an empty cycle right after a raising one, with a snapshot
\* already published.
C3_Witness ==
  /\ Settled
  /\ lastEvent.mounted
  /\ lastEvent.kind = "empty"
  /\ lastEvent.prevKind = "throw"
  /\ lastEvent.before /= Null

\* C4 (teardown): once the cleanup has run the interval is cancelled, no new
\* cycle starts, and a cycle settling afterwards changes none of telemetry,
\* isConnected and error.
C4_TeardownQuiesces ==
  [][phase' = "torn" =>
       /\ ~timerActive'
       /\ (phase = "torn" =>
             /\ started' = started
             /\ telemetry' = telemetry
             /\ isConnected' = isConnected
             /\ error' = error)]_vars

\* C4 witness: a cycle that was in flight at teardown settled with data
\* afterwards, and nothing was published.
C4_Witness ==
  /\ phase = "torn"
  /\ Settled
  /\ ~lastEvent.mounted
  /\ lastEvent.kind = "data"
  /\ telemetry = Null

\* C10 (last-known-good retention): once telemetry is non-null no step makes it
\* null or undefined again, and telemetry changes only in a step in which a
\* cycle settles with data.
C10_Retention ==
  [][/\ telemetry /= Null => telemetry'.t \notin {"null", "undefined"}
     /\ telemetry' /= telemetry =>
          /\ lastEvent'.kind = "data"
          /\ lastEvent'.cycle \in inflight]_vars

\* C10 witness: a snapshot is still published after an empty cycle followed by
\* a raising one.
C10_Witness ==
  /\ Settled
  /\ lastEvent.mounted
  /\ lastEvent.kind = "throw"
  /\ lastEvent.prevKind = "empty"
  /\ lastEvent.before /= Null
  /\ telemetry /= Null

\* C12 (polling schedule): mounting starts the first cycle at once and
\* registers the interval with a period of 2000 ms; every firing of the
\* interval starts exactly one more cycle, so the cycles started are one more
\* than the firings; and while the hook is mounted the interval is running and
\* its next firing is possible whatever the earlier cycles did.
C12_PollingSchedule ==
  /\ phase = "idle" => (started = 0 /\ ~timerActive)
  /\ phase /= "idle" => started = 1 + ticks
  /\ phase = "mounted" =>
       /\ timerActive
       /\ timerPeriod = 2000
       /\ started < MaxCycles => ENABLED IntervalTick

\* C12 witness: the first cycle returned nothing, the second raised before any
\* later cycle had begun, and a firing of the interval has started a third.
C12_Witness ==
  /\ phase = "mounted"
  /\ Settled
  /\ lastEvent.kind = "throw"
  /\ lastEvent.prevKind = "empty"
  /\ lastEvent.cycle = 2
  /\ lastEvent.startedThen = 2
  /\ started = 3
  /\ ticks = 2
  /\ inflight = {3}

\* C11 (publication): a cycle in which the adapter returned a telemetry object
\* (api hook) or one or more fragments (scan hook), settling while mounted,
\* leaves as telemetry exactly the snapshot made from that result alone (the
\* object itself, or the fusion of the fragments at the time of the call),
\* with every field taken from it and none from the snapshot before, and
\* leaves isConnected true and error null.
C11_PublishesWholesale ==
  LET new == IF hook = "api" THEN lastEvent.result.val
             ELSE transformMavlinkToTelemetry(lastEvent.result.val, lastEvent.at)
  IN  (Settled /\ lastEvent.mounted /\ lastEvent.kind = "data") =>
        /\ DOMAIN telemetry.v = DOMAIN new.v
        /\ \A k \in DOMAIN new.v : telemetry.v[k] = new.v[k]
        /\ isConnected = TRUE
        /\ error = Null

\* C11 witness: two data cycles in a row, the second replacing a snapshot
\* that differs from it in armed and battery.
C11_Witness ==
  /\ Settled
  /\ lastEvent.mounted
  /\ lastEvent.kind = "data"
  /\ lastEvent.prevKind = "data"
  /\ lastEvent.before /= Null
  /\ lastEvent.before.v.armed /= telemetry.v.armed
  /\ lastEvent.before.v.battery /= telemetry.v.battery

\* C13 (no overlapping cycles), as claimed: at most one cycle is in flight,
\* that is, no cycle starts while an earlier cycle's adapter call is pending.
C13_AtMostOneInFlight == Cardinality(inflight) <= 1

\* C23 (stale-cycle safety), as claimed: the snapshot published is that of
\* the latest-started cycle that has returned data, so a cycle started earlier
\* never replaces what a cycle started later has published, and once no cycle
\* is in flight the telemetry is that of the latest-started cycle with data.
C23_NoStaleOverwrite == publishedBy = latestData

\* C24 (connectivity and error agree): isConnected true implies error null and
\* error non-null implies isConnected false; error is null before any cycle
\* has settled, and after a cycle settled while mounted it is non-null exactly
\* when that cycle raised, so the next cycle that returns clears it.
C24_ConnectedErrorConsistent ==
  /\ isConnected => error = Null
  /\ error /= Null => ~isConnected
  /\ ~Settled => error = Null
  /\ (Settled /\ lastEvent.mounted) => (error /= Null <=> lastEvent.kind = "throw")

\* C24 witness: a cycle raised right after a cycle that had published data.
C24_Witness ==
  /\ Settled
  /\ lastEvent.mounted
  /\ lastEvent.kind = "throw"
  /\ lastEvent.prevKind = "data"
  /\ telemetry /= Null
  /\ error /= Null
  /\ ~isConnected

---------------------------------------------------------------------------
(* Properties of the adapters and of the hook over them, checked under *)
(* SpecShipped.                                                        *)

\* The network call failed: no connection, or a non-2xx answer.
NetworkFailed(n) ==
  \/ n.kind = "reject"
  \/ n.kind = "response" /\ ~n.ok

\* The call succeeded with a payload that is not what the adapter expects:
\* a body that is not JSON, JSON null, an envelope whose nested body is not
\* JSON or is null, a scan result without Items or with a null record.
Malformed(n) ==
  \/ /\ n.kind = "response"
     /\ n.ok
     /\ n.body \in {"<html>", "null", "{\"body\":\"<html>\"}", "{\"body\":\"null\"}"}
  \/ /\ n.kind = "result"
     /\ \/ n.Items = Undefined
        \/ /\ n.Items /= Undefined
           /\ \E i \in 1..Len(n.Items.v) : n.Items.v[i] = Null

\* The adapter's empty result.
EmptyResult(a) == IF a = "dynamodb" THEN Arr(<<>>) ELSE Null

\* C2 (transport errors end to end), as claimed: a cycle whose network call
\* failed, settling while mounted, leaves isConnected false, and the interval
\* keeps running while the hook is mounted.
C2_FailureReportsDisconnected ==
  (Settled /\ lastEvent.mounted /\ NetworkFailed(lastEvent.net)) =>
    /\ isConnected = FALSE
    /\ phase = "mounted" => timerActive

\* C9 (adapters never raise): whatever the network did, getLatestTelemetry
\* settled with a value, and with its empty result (null, or [] for the scan
\* adapter) when the call failed or the payload was malformed.
C9_AdaptersNeverRaise ==
  Settled =>
    /\ lastEvent.result.kind = "value"
    /\ (NetworkFailed(lastEvent.net) \/ Malformed(lastEvent.net)) =>
         lastEvent.result.val = EmptyResult(adapter)

\* C9 witness: the envelope-aware adapter was given a nested body that is not
\* JSON and returned null.
C9_Witness ==
  /\ Settled
  /\ adapter = "apiEnvelope"
  /\ lastEvent.net = Response(200, "{\"body\":\"<html>\"}")
  /\ lastEvent.result = Value(Null)

\* Where a parsed response holds telemetry: in its nested body (parsed when it
\* is a string), and in its direct telemetry field.
TelemetryPlaces(n) ==
  LET data == JSONParse(n.body).val
      body == OptProp(data, "body")
      parsed == IF body.t = "string" THEN JSONParse(body.v) ELSE Value(body)
      bodyData == IF parsed.kind = "value" THEN parsed.val ELSE Undefined
  IN  [hasBody |-> Truthy(body),
       inBody |-> OptProp(bodyData, "telemetry"),
       direct |-> OptProp(data, "telemetry")]

\* C18 (envelope), as claimed: for a successful response that parses, the
\* pre-aggregated adapter returns the telemetry object of the nested body when
\* the response has a body, else the direct telemetry object, and returns
\* null only when neither place holds a telemetry object.
C18_UnwrapsEnvelope ==
  (/\ Settled
   /\ adapter \in {"api", "apiEnvelope"}
   /\ lastEvent.net.kind = "response"
   /\ lastEvent.net.ok
   /\ JSONParse(lastEvent.net.body).kind = "value") =>
    LET places == TelemetryPlaces(lastEvent.net)
        got == lastEvent.result
    IN  /\ got.kind = "value"
        /\ (places.hasBody /\ places.inBody.t = "object") => got.val = places.inBody
        /\ (~places.hasBody /\ places.direct.t = "object") => got.val = places.direct
        /\ got.val = Null =>
             (places.inBody.t /= "object" /\ places.direct.t /= "object")

---------------------------------------------------------------------------
(* Properties of fusion, stated over the array the caller passed (items) and *)
(* what transformMavlinkToTelemetry returned for it (fused).                 *)

IsKind(item, type) == OptProp(OptProp(item, "data"), "type") = Str(type)

KindIndexes(type) == {i \in 1..Len(items.v) : IsKind(items.v[i], type)}

\* The greatest effective timestamp over the fragments at the indexes in I.
MaxTimestamp(I) ==
  CHOOSE m \in {EffectiveTimestamp(items.v[i]).v : i \in I} :
    \A i \in I : EffectiveTimestamp(items.v[i]).v <= m

\* C5 (trust flag), as claimed: with no state fragment the snapshot has
\* armed = false and hasStateData is not true; with state fragments that all
\* say armed = true it has armed = true and hasStateData = true.
C5_TrustFlag ==
  fused /= Undefined =>
    /\ KindIndexes("state") = {} =>
         /\ fused.v.armed = Bool(FALSE)
         /\ OptProp(fused, "hasStateData") /= Bool(TRUE)
    /\ (/\ KindIndexes("state") /= {}
        /\ \A i \in KindIndexes("state") : items.v[i].v.data.v.armed = Bool(TRUE)) =>
         /\ fused.v.armed = Bool(TRUE)
         /\ OptProp(fused, "hasStateData") = Bool(TRUE)

\* C6 (most recent wins), as claimed: when the array holds two battery
\* fragments with different timestamps and different remaining values, the
\* fused battery is the remaining value of the battery fragment stamped last.
C6_MostRecentWins ==
  LET B == KindIndexes("battery")
      R(i) == OptProp(items.v[i].v.data, "remaining")
  IN  (/\ fused /= Undefined
       /\ \E i, j \in B :
            /\ EffectiveTimestamp(items.v[i]).v < EffectiveTimestamp(items.v[j]).v
            /\ R(i) /= Undefined /\ R(j) /= Undefined /\ R(i) /= R(j)) =>
        \E j \in B :
          /\ EffectiveTimestamp(items.v[j]).v = MaxTimestamp(B)
          /\ fused.v.battery = R(j)

\* C7 (snapshot timestamp), as claimed: for a non-empty array the fused
\* timestamp is the greatest effective timestamp of its fragments.
C7_TimestampIsMaxFragment ==
  (fused /= Undefined /\ Len(items.v) > 0) =>
    fused.v.timestamp = Num(MaxTimestamp(1..Len(items.v)))

\* C8 (purity), as claimed: two calls with the same non-empty array return
\* equal snapshots whatever the clock read at each call.
C8_SameInputSameOutput ==
  (fused /= Undefined /\ prevFused /= Undefined /\ Len(items.v) > 0) =>
    fused = prevFused

\* The source-system ids carried by the fragments of the array passed.
CarriedSysids ==
  {OptProp(items.v[i], "sysid") : i \in 1..Len(items.v)} \ {Undefined}

\* C19 (droneId), as claimed: when some fragment carries a sysid the fused
\* droneId is drone-<sysid> for a sysid carried by the array, and it is the
\* fallback drone-1 when no fragment carries one.
C19_DroneIdFromAnyFragment ==
  fused /= Undefined =>
    IF CarriedSysids = {} THEN fused.v.droneId = Str("drone-1")
    ELSE \E sysid \in CarriedSysids :
           fused.v.droneId = Str("drone-" \o ToString(sysid.v))

---------------------------------------------------------------------------
(* Properties of the scan adapter, stated over the batch the Scan returned *)
(* (scanned) and what getLatestTelemetry settled with for it (returned).   *)

\* The kind of a record: its payload's type.
RecordKind(r) == OptProp(OptProp(r, "data"), "type")

\* The effective timestamp of a record as the claim words it: data.timestamp
\* if present, else the record timestamp, else 0.
StatedTimestamp(r) ==
  LET d == OptProp(OptProp(r, "data"), "timestamp")
      t == OptProp(r, "timestamp")
  IN  IF d /= Undefined THEN d.v ELSE IF t /= Undefined THEN t.v ELSE 0

\* The effective timestamp with a stamp of 0 counted as absent: data.timestamp
\* if present and not 0, else the record timestamp if present and not 0, else 0.
NonZeroTimestamp(r) ==
  LET d == OptProp(OptProp(r, "data"), "timestamp")
      t == OptProp(r, "timestamp")
  IN  IF d /= Undefined /\ d.v /= 0 THEN d.v
      ELSE IF t /= Undefined /\ t.v /= 0 THEN t.v ELSE 0

\* The returned list holds at most one record per kind, and for each of
\* battery, altitude and state occurring in the batch exactly one record of
\* that kind, a record of the batch whose Stamp is the greatest among the
\* batch's records of the kind.
LatestPerKind(Stamp(_)) ==
  returned /= Undefined =>
    LET batch == scanned.v
        out == returned.val.v
    IN  /\ returned.kind = "value"
        /\ \A i, j \in 1..Len(out) :
             i /= j => RecordKind(out[i]) /= RecordKind(out[j])
        /\ \A type \in {"battery", "altitude", "state"} :
             (\E b \in 1..Len(batch) : RecordKind(batch[b]) = Str(type)) =>
               \E i \in 1..Len(out) :
                 /\ RecordKind(out[i]) = Str(type)
                 /\ \E b \in 1..Len(batch) : batch[b] = out[i]
                 /\ \A b \in 1..Len(batch) :
                      RecordKind(batch[b]) = Str(type) =>
                        Stamp(batch[b]) <= Stamp(out[i])

\* C14 (latest per kind), as claimed: the returned list holds at most one
\* record per kind and, for each of battery, altitude and state occurring in
\* the batch, the record of that kind with the greatest effective timestamp,
\* which is data.timestamp if present, else the record timestamp, else 0.
C14_LatestPerKind == LatestPerKind(StatedTimestamp)

\* C14, amended: the same with the effective timestamp the adapter sorts by,
\* in which a stamp of 0 counts as absent.
C14_LatestPerKindNonZero == LatestPerKind(NonZeroTimestamp)

\* C14 witness: the batch holds two battery records, the one whose payload is
\* stamped 0 carries the later record timestamp, and the adapter returned it;
\* an altitude record is in the batch as well.
C14_Witness ==
  /\ returned /= Undefined
  /\ \E b, c \in 1..Len(scanned.v) :
       /\ RecordKind(scanned.v[b]) = Str("battery")
       /\ RecordKind(scanned.v[c]) = Str("battery")
       /\ StatedTimestamp(scanned.v[b]) = 0
       /\ NonZeroTimestamp(scanned.v[c]) < NonZeroTimestamp(scanned.v[b])
       /\ \E i \in 1..Len(returned.val.v) : returned.val.v[i] = scanned.v[b]
  /\ \E a \in 1..Len(scanned.v) : RecordKind(scanned.v[a]) = Str("altitude")

---------------------------------------------------------------------------
(* Properties of fusion field by field, checked under SpecFields. *)

\* The payload of the first fragment of the kind in the array passed.
FirstData(type) ==
  LET I == KindIndexes(type)
      first == CHOOSE i \in I : \A j \in I : i <= j
  IN  items.v[first].v.data

Clamp(x) == IF x < 0 THEN 0 ELSE IF x > 100 THEN 100 ELSE x

\* C15 (battery derivation), as claimed: with a battery fragment in the array,
\* the fused battery is its remaining when it carries one; else, when it
\* carries a voltage, (voltage - 12) / 4.2 * 100 clamped to [0, 100], for
\* every voltage; else 100; and it lies in [0, 100] in every case.
C15_BatteryDerivation ==
  (fused /= Undefined /\ KindIndexes("battery") /= {}) =>
    LET remaining == OptProp(FirstData("battery"), "remaining")
        voltage == OptProp(FirstData("battery"), "voltage")
    IN  /\ fused.v.battery.t = "number"
        /\ fused.v.battery.v \in 0..100
        /\ fused.v.battery.v =
             (IF remaining /= Undefined THEN remaining.v
              ELSE IF voltage /= Undefined
                   THEN Clamp(((voltage.v - 120) * 100) \div 42)
                   ELSE 100)

\* C16 (totality): whatever array was passed, the empty one and fragments
\* without their kind's fields included, transformMavlinkToTelemetry returned
\* an object in which droneId, timestamp, position.lat/lon/alt,
\* velocity.vx/vy/vz, attitude.roll/pitch/yaw, battery, flightMode and armed
\* are all defined (none is undefined or missing).
C16_Totality ==
  fused /= Undefined =>
    /\ fused.t = "object"
    /\ \A k \in {"droneId", "timestamp", "battery", "flightMode", "armed"} :
         OptProp(fused, k) /= Undefined
    /\ \A k \in {"lat", "lon", "alt"} :
         OptProp(OptProp(fused, "position"), k) /= Undefined
    /\ \A k \in {"vx", "vy", "vz"} :
         OptProp(OptProp(fused, "velocity"), k) /= Undefined
    /\ \A k \in {"roll", "pitch", "yaw"} :
         OptProp(OptProp(fused, "attitude"), k) /= Undefined

\* C16 witness: fusion was called with an altitude fragment that has neither
\* relative nor amsl and a state fragment that has neither armed nor mode.
C16_Witness ==
  /\ fused /= Undefined
  /\ KindIndexes("altitude") /= {}
  /\ OptProp(FirstData("altitude"), "relative") = Undefined
  /\ OptProp(FirstData("altitude"), "amsl") = Undefined
  /\ KindIndexes("state") /= {}
  /\ OptProp(FirstData("state"), "armed") = Undefined
  /\ OptProp(FirstData("state"), "mode") = Undefined

\* The stated mode table.
StatedModeNames ==
  [n \in 0..10 |->
     CASE n = 0 -> "STABILIZE" [] n = 1 -> "ACRO" [] n = 2 -> "ALT_HOLD"
       [] n = 3 -> "AUTO" [] n = 4 -> "GUIDED" [] n = 5 -> "LOITER"
       [] n = 6 -> "RTL" [] n = 7 -> "CIRCLE" [] n = 8 -> "LAND"
       [] n = 9 -> "OF_LOITER" [] n = 10 -> "TAKEOFF"]

\* C17 (mode mapping): with a state fragment whose mode is the number n, the
\* fused flightMode is the n-th name of the table for n in 0..10 and the
\* string MODE_n for every other n.
C17_ModeMapping ==
  (fused /= Undefined /\ KindIndexes("state") /= {}) =>
    LET mode == OptProp(FirstData("state"), "mode")
    IN  mode.t = "number" =>
          fused.v.flightMode =
            Str(IF mode.v \in 0..10 THEN StatedModeNames[mode.v]
                ELSE "MODE_" \o ToString(mode.v))

\* C17 witness: mode 4 was fused to GUIDED.
C17_Witness ==
  /\ fused /= Undefined
  /\ KindIndexes("state") /= {}
  /\ OptProp(FirstData("state"), "mode") = Num(4)
  /\ fused.v.flightMode = Str("GUIDED")

---------------------------------------------------------------------------
(* Properties of the command dial, checked under SpecDial. *)

\* C20 (no dispatch while disconnected): a handleCommand call made while
\* isConnected is false, for whichever command, leaves loading and
\* activeCommand as they were and does not call onCommand; so onCommand is
\* only ever called in a step in which isConnected is true.
C20_NoDispatchWhileDisconnected ==
  [][/\ (clicks' /= clicks /\ ~dialConnected) =>
          /\ loading' = loading
          /\ activeCommand' = activeCommand
          /\ dispatched' = dispatched
          /\ pending' = pending
     /\ dispatched' /= dispatched => dialConnected]_vars

\* C20 witness: a command was dispatched while connected and has settled, the
\* connection was lost, and the centre button was clicked while disconnected.
C20_Witness ==
  /\ lastClick.kind = "click"
  /\ lastClick.command \in {"ARM", "DISARM"}
  /\ ~lastClick.connected
  /\ lastClick.loading = Null
  /\ dispatched = 1
  /\ clicks = 2
  /\ loading = Null

---------------------------------------------------------------------------
(* Properties of the presentation of a fused snapshot, checked under *)
(* SpecFusion.                                                       *)

\* C21 (displayed armed status), as claimed: for a snapshot whose hasStateData
\* is true the displayed status is its armed value; for every other snapshot,
\* one fused from an array with no state fragment included, the displayed
\* status is armed = true and the dial's centre button issues DISARM.
C21_DisplayArmedDefault ==
  fused /= Undefined =>
    IF OptProp(fused, "hasStateData") = Bool(TRUE)
    THEN displayArmed(fused) = fused.v.armed
    ELSE /\ displayArmed(fused) = Bool(TRUE)
         /\ CenterCommand(displayArmed(fused)) = "DISARM"

---------------------------------------------------------------------------
(* The early exit of the scan adapter, checked under SpecScan. *)

KnownKinds == {Str("battery"), Str("altitude"), Str("state")}

\* The position in the sequence at which a record of the kind is first seen,
\* one past its end when there is none.
FirstSeen(sorted, kind) ==
  LET I == {i \in 1..Len(sorted) : RecordKind(sorted[i]) = kind}
  IN  IF I = {} THEN Len(sorted) + 1 ELSE CHOOSE i \in I : \A j \in I : i <= j

\* The position at which the third known kind is first seen, one past the end
\* when some known kind does not occur.
StopPosition(sorted) ==
  CHOOSE p \in 1..(Len(sorted) + 1) :
    /\ \E k \in KnownKinds : FirstSeen(sorted, k) = p
    /\ \A k \in KnownKinds : FirstSeen(sorted, k) <= p

\* C22 (early exit): with the batch in the adapter's sorted order, a record of
\* a kind other than battery, altitude and state is returned exactly when it
\* is the first of its kind and stands before the position at which the third
\* of the known kinds is first seen; other kinds first seen after that
\* position have no record in the result.
C22_EarlyExit ==
  returned /= Undefined =>
    LET sorted == SortDesc(scanned.v)
        out == returned.val.v
        others == {RecordKind(sorted[i]) : i \in 1..Len(sorted)} \ KnownKinds
    IN  \A kind \in others :
          IF FirstSeen(sorted, kind) < StopPosition(sorted)
          THEN \E k \in 1..Len(out) :
                 /\ out[k] = sorted[FirstSeen(sorted, kind)]
                 /\ \A j \in 1..Len(out) : RecordKind(out[j]) = kind => j = k
          ELSE \A k \in 1..Len(out) : RecordKind(out[k]) /= kind

\* C22 witness: all three known kinds were seen before a record of another
\* kind, which the adapter left out.
C22_Witness ==
  /\ returned /= Undefined
  /\ StopPosition(SortDesc(scanned.v)) <= Len(scanned.v)
  /\ \E i \in 1..Len(scanned.v) :
       /\ RecordKind(scanned.v[i]) \notin KnownKinds
       /\ \A k \in 1..Len(returned.val.v) :
            RecordKind(returned.val.v[k]) /= RecordKind(scanned.v[i])

\* C29: at most one command is in flight, loading names it for as long as it
\* is, a handleCommand call made while loading is non-null dispatches
\* nothing, and loading is null again once the command has settled,
\* resolved or rejected.
C29_OneCommandInFlight ==
  /\ pending \in {0, 1}
  /\ pending = 1 <=> loading /= Null
  /\ (lastClick.kind = "click" /\ lastClick.loading /= Null /\ pending = 1)
       => loading = lastClick.loading
  /\ pending = 0 => (dispatched = 0 <=> lastSettled = "none")

\* C29 witness: a command was dispatched, a click during it was ignored, the
\* command was rejected, and the next command went out and settled too.
C29_Witness ==
  /\ clicks = 3
  /\ dispatched = 2
  /\ pending = 0
  /\ loading = Null
  /\ lastSettled = "rejected"

----------------------------------------------------------------------------
(* WebSocketService: one socket at a time in this.ws, reconnects scheduled
   with setTimeout.  A socket keeps the handlers connect() gave it after
   this.ws has moved on, so every socket ever created stays in the model.
   Only the number of pending reconnect timers matters, their delays
   (reconnectDelay * 2^(attempt - 1)) order nothing the service reads. *)

maxReconnectAttempts == 5

\* attemptReconnect() without its guard.
attemptReconnectUnguarded(attempts, timers) ==
  [attempts |-> attempts + 1, timers |-> timers + 1]

\* attemptReconnect(): the counter and the pending timers it leaves.
attemptReconnect(attempts, timers) ==
  IF attempts >= maxReconnectAttempts
  THEN [attempts |-> attempts, timers |-> timers]
  ELSE [attempts |-> attempts + 1, timers |-> timers + 1]

\* connect(), with `timers` reconnect timers pending when it is called;
\* `throws` says whether new WebSocket(url) throws.
wsConnect(timers, throws) ==
  IF ws /= 0 /\ sockets[ws] = "OPEN"
  THEN /\ reconnectTimers' = timers
       /\ UNCHANGED <<ws, sockets, reconnectAttempts>>
  ELSE IF throws
  THEN LET r == attemptReconnect(reconnectAttempts, timers) IN
       /\ reconnectAttempts' = r.attempts
       /\ reconnectTimers' = r.timers
       /\ UNCHANGED <<ws, sockets>>
  ELSE /\ Len(sockets) < MaxSockets
       /\ sockets' = Append(sockets, "CONNECTING")
       /\ ws' = Len(sockets) + 1
       /\ reconnectTimers' = timers
       /\ UNCHANGED reconnectAttempts

\* The client calls webSocket.connect().
ClientConnect(throws) ==
  /\ wsConnect(reconnectTimers, throws)
  /\ clientClosed' = FALSE
  /\ UNCHANGED <<ctlVars, now, fusionVars, scanVars, dialVars, mockVars, alertVars, wsStatus>>

\* A reconnect timer runs its callback: this.connect().
ReconnectTimerFires(throws) ==
  /\ reconnectTimers > 0
  /\ wsConnect(reconnectTimers - 1, throws)
  /\ UNCHANGED <<ctlVars, now, fusionVars, scanVars, dialVars, mockVars, alertVars, wsStatus, clientClosed>>

\* onopen of socket i.
SocketOpens(i) ==
  /\ sockets[i] = "CONNECTING"
  /\ sockets' = [sockets EXCEPT ![i] = "OPEN"]
  /\ reconnectAttempts' = 0
  /\ wsStatus' = "connected"
  /\ UNCHANGED <<ctlVars, now, fusionVars, scanVars, dialVars, mockVars, alertVars, ws, reconnectTimers,
                 clientClosed>>

\* onerror of socket i; the browser sends the close event afterwards.
SocketErrors(i) ==
  /\ sockets[i] \in {"CONNECTING", "OPEN"}
  /\ sockets' = [sockets EXCEPT ![i] = "CLOSING"]
  /\ wsStatus' = "error"
  /\ UNCHANGED <<ctlVars, now, fusionVars, scanVars, dialVars, mockVars, alertVars, ws, reconnectAttempts,
                 reconnectTimers, clientClosed>>

\* onclose of socket i: the connection failed, was lost or was closed.
SocketCloses(i) ==
  /\ sockets[i] /= "CLOSED"
  /\ sockets' = [sockets EXCEPT ![i] = "CLOSED"]
  /\ wsStatus' = "disconnected"
  /\ LET r == attemptReconnect(reconnectAttempts, reconnectTimers) IN
       /\ reconnectAttempts' = r.attempts
       /\ reconnectTimers' = r.timers
  /\ UNCHANGED <<ctlVars, now, fusionVars, scanVars, dialVars, mockVars, alertVars, ws, clientClosed>>

\* The client calls webSocket.disconnect().
ClientDisconnect ==
  /\ ~clientClosed
  /\ IF ws /= 0
     THEN /\ sockets' = [sockets EXCEPT
                           ![ws] = IF @ = "CLOSED" THEN "CLOSED" ELSE "CLOSING"]
          /\ ws' = 0
     ELSE UNCHANGED <<ws, sockets>>
  /\ clientClosed' = TRUE
  /\ UNCHANGED <<ctlVars, now, fusionVars, scanVars, dialVars, mockVars, alertVars, reconnectAttempts,
                 reconnectTimers, wsStatus>>

InitWs ==
  /\ hook = "api"
  /\ adapter = "contract"
  /\ CtlIdle
  /\ FusionIdle
  /\ now = ClockStart
  /\ DialAbsent

NextWs ==
  \/ \E throws \in BOOLEAN : ClientConnect(throws)
  \/ \E throws \in BOOLEAN : ReconnectTimerFires(throws)
  \/ \E i \in 1..Len(sockets) : SocketOpens(i)
  \/ \E i \in 1..Len(sockets) : SocketErrors(i)
  \/ \E i \in 1..Len(sockets) : SocketCloses(i)
  \/ ClientDisconnect

SpecWs == InitWs /\ [][NextWs]_vars

\* C25: after disconnect(), and until the client calls connect() again, the
\* service opens no new WebSocket and schedules no reconnect (in particular
\* not from the close event that disconnect() causes).
C25_NoReconnectAfterDisconnect ==
  [][(clientClosed /\ clientClosed') =>
       /\ Len(sockets') = Len(sockets)
       /\ reconnectTimers' <= reconnectTimers]_vars

\* C26: reconnectAttempts never exceeds maxReconnectAttempts, a socket that
\* opens resets it to 0, and at maxReconnectAttempts no further connection
\* attempt is scheduled.
C26_ReconnectBound ==
  [][/\ reconnectAttempts' \in 0..maxReconnectAttempts
     /\ (\E i \in 1..Len(sockets) :
           sockets[i] = "CONNECTING" /\ sockets'[i] = "OPEN") => reconnectAttempts' = 0
     /\ reconnectAttempts = maxReconnectAttempts =>
          /\ reconnectTimers' <= reconnectTimers
          /\ reconnectAttempts' \in {0, maxReconnectAttempts}]_vars

\* Five reconnects were tried without an open and the service has given up.
C26_Witness ==
  /\ reconnectAttempts = maxReconnectAttempts
  /\ reconnectTimers = 0
  /\ Len(sockets) > 0
  /\ \A i \in 1..Len(sockets) : sockets[i] = "CLOSED"

----------------------------------------------------------------------------
(* MockWebSocketService: connect() arms a 500 ms timeout that announces the
   connection and starts the telemetry interval; disconnect() clears the
   interval recorded in intervalId.  The telemetry payload is random and
   read by none of the service's decisions, so an emission is modelled by
   its event name; the battery alert needs some 6500 ticks of one interval
   and lies beyond MaxEmitted. *)

\* connect()
MockConnect ==
  /\ connects < MaxConnects
  /\ connects' = connects + 1
  /\ mockClosed' = FALSE
  /\ IF mockIsConnected
     THEN UNCHANGED <<mockIsConnected, connectTimeouts>>
     ELSE /\ mockIsConnected' = TRUE
          /\ connectTimeouts' = connectTimeouts + 1
  /\ UNCHANGED <<ctlVars, now, fusionVars, scanVars, dialVars, wsVars, alertVars,
                 mockIntervalId, intervals, streams, emitted>>

\* disconnect()
MockDisconnect ==
  /\ ~mockClosed
  /\ IF mockIntervalId /= 0
     THEN /\ intervals' = intervals \ {mockIntervalId}
          /\ mockIntervalId' = 0
     ELSE UNCHANGED <<intervals, mockIntervalId>>
  /\ mockIsConnected' = FALSE
  /\ mockClosed' = TRUE
  /\ UNCHANGED <<ctlVars, now, fusionVars, scanVars, dialVars, wsVars, alertVars,
                 connectTimeouts, streams, emitted, connects>>

\* The 500 ms timeout of connect() runs: emit('system_status', connected)
\* and startTelemetryStream().
ConnectTimeoutFires ==
  /\ connectTimeouts > 0
  /\ Len(emitted) < MaxEmitted
  /\ connectTimeouts' = connectTimeouts - 1
  /\ emitted' = Append(emitted, "system_status connected")
  /\ streams' = streams + 1
  /\ intervals' = intervals \cup {streams + 1}
  /\ mockIntervalId' = streams + 1
  /\ UNCHANGED <<ctlVars, now, fusionVars, scanVars, dialVars, wsVars, alertVars,
                 mockIsConnected, connects, mockClosed>>

\* A tick of telemetry interval i: emit('telemetry_update', telemetry).
StreamTick(i) ==
  /\ i \in intervals
  /\ Len(emitted) < MaxEmitted
  /\ emitted' = Append(emitted, "telemetry_update")
  /\ UNCHANGED <<ctlVars, now, fusionVars, scanVars, dialVars, wsVars, alertVars,
                 mockIsConnected, mockIntervalId, connectTimeouts, intervals, streams,
                 connects, mockClosed>>

InitMock ==
  /\ hook = "api"
  /\ adapter = "contract"
  /\ CtlIdle
  /\ FusionIdle
  /\ now = ClockStart
  /\ DialAbsent

NextMock ==
  \/ MockConnect
  \/ MockDisconnect
  \/ ConnectTimeoutFires
  \/ \E i \in intervals : StreamTick(i)

SpecMock == InitMock /\ [][NextMock]_vars

\* C27: once disconnect() has returned, and until connect() is called again,
\* the mock service emits nothing, also when disconnect() came less than
\* 500 ms after connect().
C27_SilentAfterDisconnect ==
  [][(mockClosed /\ mockClosed') => emitted' = emitted]_vars

\* C28: at most one telemetry interval runs at a time, and a running
\* interval is the one recorded in intervalId, so disconnect() stops it.
C28_SingleRecordedInterval ==
  /\ Cardinality(intervals) <= 1
  /\ \A i \in intervals : i = mockIntervalId

----------------------------------------------------------------------------
(* useWebSocket: the alerts state and its two handlers.  An Alert is
   modelled by the fields the handlers read or write, and by its timestamp,
   which tells a re-triggered alert from the entry it replaces. *)

AlertIds == {"alert-1", "alert-2"}

\* what alert_triggered delivers
TriggeredAlerts ==
  [alertId : AlertIds, timestamp : {ClockStart, ClockStart + 1},
   resolved : {FALSE}, resolvedAt : {Undefined}]

\* what alert_resolved delivers
ResolvedAlerts ==
  [alertId : AlertIds, timestamp : {ClockStart}, resolved : {TRUE},
   resolvedAt : {Num(ClockStart + 2)}]

\* the alertIds of a list of alerts
ListedIds(list) == {list[i].alertId : i \in 1..Len(list)}

\* Mutant: the new alert is put in front of the list as it is.
handleAlertTriggeredPrepend(prev, data) == <<data>> \o prev

\* prev => [data, ...prev.filter((a) => a.alertId !== data.alertId)]
handleAlertTriggered(prev, data) ==
  <<data>> \o SelectSeq(prev, LAMBDA a : a.alertId /= data.alertId)

\* prev => prev.map((alert) => alert.alertId === data.alertId
\*           ? { ...alert, resolved: true, resolvedAt: data.resolvedAt } : alert)
handleAlertResolved(prev, data) ==
  [i \in 1..Len(prev) |->
     IF prev[i].alertId = data.alertId
     THEN [prev[i] EXCEPT !.resolved = TRUE, !.resolvedAt = data.resolvedAt]
     ELSE prev[i]]

\* The service emits alert_triggered.
AlertTriggered(data) ==
  /\ alertEvents < MaxAlertEvents
  /\ alertEvents' = alertEvents + 1
  /\ alerts' = handleAlertTriggered(alerts, data)
  /\ lastAlert' = [kind |-> "alert_triggered", data |-> data,
                   listed |-> data.alertId \in ListedIds(alerts)]
  /\ UNCHANGED <<ctlVars, now, fusionVars, scanVars, dialVars, wsVars, mockVars>>

\* The service emits alert_resolved.
AlertResolved(data) ==
  /\ alertEvents < MaxAlertEvents
  /\ alertEvents' = alertEvents + 1
  /\ alerts' = handleAlertResolved(alerts, data)
  /\ lastAlert' = [kind |-> "alert_resolved", data |-> data,
                   listed |-> data.alertId \in ListedIds(alerts)]
  /\ UNCHANGED <<ctlVars, now, fusionVars, scanVars, dialVars, wsVars, mockVars>>

InitAlerts ==
  /\ hook = "api"
  /\ adapter = "contract"
  /\ CtlIdle
  /\ FusionIdle
  /\ now = ClockStart
  /\ DialAbsent

NextAlerts ==
  \/ \E data \in TriggeredAlerts : AlertTriggered(data)
  \/ \E data \in ResolvedAlerts : AlertResolved(data)

SpecAlerts == InitAlerts /\ [][NextAlerts]_vars

\* C30: no two entries of alerts share an alertId; alert_triggered puts its
\* alert at the head and keeps, of the previous entries, exactly those with
\* another alertId; alert_resolved for an alertId that is not listed leaves
\* the list as it was.
C30_AlertListUnique ==
  [][alertEvents' /= alertEvents =>
       /\ \A i, j \in 1..Len(alerts') :
            alerts'[i].alertId = alerts'[j].alertId => i = j
       /\ lastAlert'.kind = "alert_triggered" =>
            /\ alerts'[1] = lastAlert'.data
            /\ ListedIds(alerts') = ListedIds(alerts) \cup {lastAlert'.data.alertId}
            /\ \A i \in 1..Len(alerts) :
                 alerts[i].alertId /= lastAlert'.data.alertId
                   => \E j \in 2..Len(alerts') : alerts'[j] = alerts[i]
       /\ (lastAlert'.kind = "alert_resolved"
           /\ lastAlert'.data.alertId \notin ListedIds(alerts)) => alerts' = alerts]_vars

\* C30 witness: a listed alert was triggered again while another one was
\* listed too; it is now at the head and the other one behind it.
C30_Witness ==
  /\ Len(alerts) = 2
  /\ lastAlert.kind = "alert_triggered"
  /\ lastAlert.listed
  /\ alerts[1] = lastAlert.data
  /\ alerts[2].alertId /= alerts[1].alertId

===========================================================================
